---- MODULE Spec2Model ----
(***************************************************************************)
(* The conversation checkpoint store of the portfolio-management backend   *)
(* (backend/utils.py): AsyncCosmosDBCheckpointSaver over three Cosmos DB   *)
(* containers (conversations, checkpoints, checkpoint writes).             *)
(*                                                                         *)
(* A container is a set of documents; a document is identified inside a    *)
(* container by its partition key value and its "id".  Python values are   *)
(* records tagged with their Python type in the field "py".                *)
(***************************************************************************)
EXTENDS Integers, Sequences, FiniteSets, TLC

\* ------------------------------------------------------------------ bounds
\* Calls made against the store in one behaviour.
MaxCalls == 4
\* Readings of the wall clock: datetime.utcnow() returns 1..MaxClock.
MaxClock == 2
\* Checkpoint ids are time-ordered: 1..MaxCid, compared as the store compares them.
MaxCid == 2

\* Calls made against the checkpoints container in one behaviour.
MaxStoreCalls == 4
\* Calls made against the checkpoints and writes containers in one behaviour.
MaxWriteCalls == 3
\* Upserts for a user that land while one cleanup of that user's documents runs.
MaxDuring == 2

\* config["configurable"].get("checkpoint_id") of a config that carries none.
NoCheckpointId == 0
\* config["configurable"].get("user_id") of a config that carries none.
NoUser == ""

Users == {"alice", "bob"}
Threads == {"t1", "t2", "t3"}
Namespaces == {"", "sub"}
Cids == 1..MaxCid

\* ----------------------------------------------------------- Python values
PyStr(s) == [py |-> "str", v |-> s]
PyInt(n) == [py |-> "int", v |-> n]
PyNone == [py |-> "NoneType"]
PyList(items) == [py |-> "list", items |-> items]
PyDict(items) == [py |-> "dict", items |-> items]
PyDatetime(t) == [py |-> "datetime", t |-> t]
EmptyDict == PyDict(<<>>)

\* Python types whose instances carry no __dict__.
BuiltinTypes ==
    {"str", "int", "float", "bool", "NoneType", "list", "tuple", "dict", "datetime",
     "lock", "handle"}

\* langchain_core message objects: class name, role, content, id.
MessageObject(cls, type, content, id) ==
    [py |-> cls,
     attrs |-> [content |-> PyStr(content), type |-> PyStr(type),
                additional_kwargs |-> EmptyDict, response_metadata |-> EmptyDict,
                id |-> PyStr(id)]]
HumanMessage(content, id) == MessageObject("HumanMessage", "human", content, id)
AIMessage(content, id) == MessageObject("AIMessage", "ai", content, id)

HasDunderDict(obj) == obj.py \notin BuiltinTypes
HasAttr(obj, name) == HasDunderDict(obj) /\ name \in DOMAIN obj.attrs
GetAttr(obj, name, default) == IF HasAttr(obj, name) THEN obj.attrs[name] ELSE default

\* datetime.isoformat(): a fixed-width string whose order is the order of the instants.
IsoFormat(t) == [py |-> "str", iso |-> t]
FromIsoFormat(s) == PyDatetime(s.iso)

RECURSIVE serialize_for_cosmosdb(_)
serialize_for_cosmosdb(obj) ==
    IF HasDunderDict(obj)
    THEN IF HasAttr(obj, "content") /\ HasAttr(obj, "type")
         THEN PyDict([_type |-> PyStr(obj.py),
                      content |-> obj.attrs.content,
                      type |-> obj.attrs.type,
                      additional_kwargs |-> GetAttr(obj, "additional_kwargs", EmptyDict),
                      response_metadata |-> GetAttr(obj, "response_metadata", EmptyDict),
                      id |-> GetAttr(obj, "id", PyNone)])
         ELSE PyDict([k \in DOMAIN obj.attrs \cup {"_type"} |->
                        IF k = "_type" THEN PyStr(obj.py)
                        ELSE serialize_for_cosmosdb(obj.attrs[k])])
    ELSE CASE obj.py = "dict" ->
                PyDict([k \in DOMAIN obj.items |-> serialize_for_cosmosdb(obj.items[k])])
           [] obj.py \in {"list", "tuple"} ->
                PyList([i \in DOMAIN obj.items |-> serialize_for_cosmosdb(obj.items[i])])
           [] obj.py \in {"str", "int", "float", "bool", "NoneType"} -> obj
           [] obj.py = "datetime" -> IsoFormat(obj.t)
           [] OTHER -> PyStr(obj.repr)

\* bool, and the third message class deserialize_from_cosmosdb knows.
PyBool(b) == [py |-> "bool", v |-> b]
SystemMessage(content, id) == MessageObject("SystemMessage", "system", content, id)
\* The message classes deserialize_from_cosmosdb reconstructs, with the type
\* attribute their instances have.
MessageClasses == [HumanMessage |-> "human", AIMessage |-> "ai", SystemMessage |-> "system"]

\* c in s, s.endswith(c), s[-6:] and s.replace('Z', '+00:00') of Python strings.
Contains(s, c) == \E i \in 1..Len(s) : SubSeq(s, i, i) = c
EndsWith(s, c) == Len(s) > 0 /\ SubSeq(s, Len(s), Len(s)) = c
LastSix(s) == SubSeq(s, IF Len(s) > 6 THEN Len(s) - 5 ELSE 1, Len(s))
RECURSIVE ReplaceZ(_)
ReplaceZ(s) ==
    IF Len(s) = 0 THEN ""
    ELSE (IF SubSeq(s, 1, 1) = "Z" THEN "+00:00" ELSE SubSeq(s, 1, 1))
         \o ReplaceZ(SubSeq(s, 2, Len(s)))
\* datetime.fromisoformat accepts s; of the formats it accepts, the one with date,
\* seconds and UTC offset: YYYY-MM-DDTHH:MM:SS+HH:MM.
Digits == {"0", "1", "2", "3", "4", "5", "6", "7", "8", "9"}
FromIsoFormatAccepts(s) ==
    /\ Len(s) = 25
    /\ \A i \in 1..25 :
          LET c == SubSeq(s, i, i) IN
          CASE i \in {5, 8} -> c = "-"
            [] i = 11 -> c = "T"
            [] i \in {14, 17, 23} -> c = ":"
            [] i = 20 -> c \in {"+", "-"}
            [] OTHER -> c \in Digits
\* The aware datetime fromisoformat returns, its instant kept as the text parsed.
FromIsoFormatText(s) == PyDatetime(s)

DictGet(obj, key, default) ==
    IF key \in DOMAIN obj.items THEN obj.items[key] ELSE default

RECURSIVE deserialize_from_cosmosdb(_)
deserialize_from_cosmosdb(obj) ==
    IF obj.py = "dict" /\ "_type" \in DOMAIN obj.items
    THEN IF obj.items["_type"].v \in {"HumanMessage", "AIMessage", "SystemMessage"}
         THEN [py |-> obj.items["_type"].v,
               attrs |-> [content |-> DictGet(obj, "content", PyStr("")),
                          type |-> PyStr(MessageClasses[obj.items["_type"].v]),
                          additional_kwargs |-> DictGet(obj, "additional_kwargs", EmptyDict),
                          response_metadata |-> DictGet(obj, "response_metadata", EmptyDict),
                          id |-> DictGet(obj, "id", PyNone)]]
         ELSE PyDict([k \in DOMAIN obj.items \ {"_type"} |->
                        deserialize_from_cosmosdb(obj.items[k])])
    ELSE CASE obj.py = "dict" ->
                PyDict([k \in DOMAIN obj.items |-> deserialize_from_cosmosdb(obj.items[k])])
           [] obj.py = "list" ->
                PyList([i \in DOMAIN obj.items |-> deserialize_from_cosmosdb(obj.items[i])])
           [] obj.py = "str" ->
                \* the isoformat of a naive datetime has neither 'Z' nor '+'
                IF "iso" \in DOMAIN obj THEN obj
                ELSE IF /\ Len(obj.v) > 10 /\ Contains(obj.v, "T")
                        /\ (EndsWith(obj.v, "Z") \/ Contains(LastSix(obj.v), "+"))
                        /\ FromIsoFormatAccepts(ReplaceZ(obj.v))
                     THEN FromIsoFormatText(ReplaceZ(obj.v))
                     ELSE obj
           [] OTHER -> obj

\* ------------------------------------------------------------- typed codec
\* The pluggable serializer (self.serde) and base64, each with its inverse.
SerdeDumpsTyped(obj) == <<"msgpack", [bytes |-> obj]>>
SerdeLoadsTyped(data) == data[2].bytes
SerdeDumps(obj) == [bytes |-> obj]
SerdeLoads(bytes) == bytes.bytes
B64Encode(bytes) == [b64 |-> bytes]
B64Decode(text) == text.b64

\* Objects the serializer cannot handle: a lock, which it fails to encode, and a
\* handle, which it encodes to bytes it then fails to decode.
Lock == [py |-> "lock", repr |-> "<unlocked _thread.lock object>"]
Handle == [py |-> "handle", repr |-> "<handle>"]
\* obj is, or holds in its list or in its messages channel, an instance of cls.
Holds(obj, cls) ==
    IF "py" \in DOMAIN obj
    THEN \/ obj.py = cls
         \/ obj.py = "list" /\ \E i \in DOMAIN obj.items : obj.items[i].py = cls
    ELSE /\ "messages" \in DOMAIN obj.channel_values
         /\ \E i \in DOMAIN obj.channel_values.messages.items :
               obj.channel_values.messages.items[i].py = cls
SerdeDumpsTypedRaises(obj) == Holds(obj, "lock")
SerdeLoadsTypedRaises(data) == Holds(data[2].bytes, "handle")

\* dumps_typed and loads_typed raise ValueError when the serializer raises.
DumpsTypedRaises(obj) == SerdeDumpsTypedRaises(obj)
LoadsTypedRaises(data) == SerdeLoadsTypedRaises(<<data[1], B64Decode(data[2])>>)
\* What they return when they do not raise.
dumps_typed(obj) ==
    LET typed == SerdeDumpsTyped(obj) IN <<typed[1], B64Encode(typed[2])>>
loads_typed(data) == SerdeLoadsTyped(<<data[1], B64Decode(data[2])>>)
dumps(obj) == B64Encode(SerdeDumps(obj))
loads(data) == SerdeLoads(B64Decode(data))

\* ------------------------------------------------------ Cosmos DB containers
\* upsert_item: replaces the document with the same partition key value and id.
UpsertItem(container, doc, pk) ==
    {d \in container : ~(d.id = doc.id /\ d[pk] = doc[pk])} \cup {doc}
ItemExists(container, id, pk, pkValue) ==
    \E d \in container : d.id = id /\ d[pk] = pkValue
\* delete_item of an existing document (a missing one raises CosmosResourceNotFoundError).
DeleteItem(container, id, pk, pkValue) ==
    {d \in container : ~(d.id = id /\ d[pk] = pkValue)}

\* The sequences that enumerate the set S, each element once: the orders in which
\* a query may return the documents of S.
Orderings(S) ==
    {q \in [1..Cardinality(S) -> S] : \A i, j \in DOMAIN q : i # j => q[i] # q[j]}

\* -------------------------------------------------------------------- state
VARIABLES
    conversations,   \* container: partition key userId, id = thread_id
    checkpoints,     \* container: partition key thread_id
    writes,          \* container: partition key thread_id
    now,             \* the wall clock read by datetime.utcnow()
    allocated,       \* thread ids synthesized by uuid.uuid4()
    cleaner,         \* a cleanup_old_conversations call in progress
    calls,           \* calls made so far
    last,            \* the call that returned last, with what it returned
    session,         \* the inbound interaction of the agent being served
    codec            \* a value on its way through the object codec

vars ==
    <<conversations, checkpoints, writes, now, allocated, cleaner, calls, last, session,
      codec>>

\* No cleanup in progress.  todo: the documents still to delete; kept: the id of the
\* document the query put first; found: how many documents the query returned;
\* deleted: the ids deleted so far; during: upserts of the user's documents made
\* since the query.
Idle ==
    [pc |-> "idle", user_id |-> NoUser, todo |-> <<>>, kept |-> "", found |-> 0,
     deleted |-> {}, during |-> 0]

\* What is recorded of a call that returned: ok is FALSE when it raised (or, for
\* delete_conversation, returned False); tid is a returned thread id (the task id
\* of aput_writes); parent is the checkpoint id the config of aput carried; batch
\* is the writes aput_writes was given and rejected the positions in it whose
\* upsert the store refused; found is, for aput, how many stored checkpoints
\* already held what the call was given (same thread, namespace, id, parent,
\* checkpoint and metadata); status is the HTTP status of an endpoint's response
\* (0 for a call of the checkpointer).
Returned(op, thread_id, user_id, ns, cid, ok, tid, deleted) ==
    [op |-> op, thread_id |-> thread_id, user_id |-> user_id, checkpoint_ns |-> ns,
     checkpoint_id |-> cid, ok |-> ok, tid |-> tid, deleted |-> deleted,
     found |-> 0, during |-> 0, parent |-> NoCheckpointId, batch |-> <<>>,
     rejected |-> {}, status |-> 0]

\* No interaction being served.  entry: the method called; loop: what
\* asyncio.get_event_loop() finds in the calling thread; user_id: the identity the
\* caller supplied; thread_id: the local thread_id of _ensure_thread_id; config: the
\* configurable after binding; attempts: runs of _ensure_thread_id; failures:
\* exceptions raised in them; trace: the steps performed so far, in order; outcome:
\* how the interaction ended.
NoSession ==
    [pc |-> "idle", entry |-> "", loop |-> "", user_id |-> NoUser, thread_id |-> "",
     config |-> [thread_id |-> "", user_id |-> NoUser],
     attempts |-> 0, failures |-> 0, trace |-> <<>>, outcome |-> "none"]

\* Nothing given to the codec.  x: the value; encoded: serialize_for_cosmosdb(x);
\* decoded: deserialize_from_cosmosdb(encoded).
NoCodec == [pc |-> "idle", x |-> PyNone, encoded |-> PyNone, decoded |-> PyNone]

Init ==
    /\ session = NoSession
    /\ codec = NoCodec
    /\ conversations = {}
    /\ checkpoints = {}
    /\ writes = {}
    /\ now = 1
    /\ allocated = {}
    /\ cleaner = Idle
    /\ calls = 0
    /\ last = Returned("init", "", NoUser, "", NoCheckpointId, TRUE, "", {})

\* The configs the execution engine passes: config["configurable"].
Config(thread_id, ns, cid, user_id) ==
    [thread_id |-> thread_id, checkpoint_ns |-> ns, checkpoint_id |-> cid,
     user_id |-> user_id]
\* A checkpoint: its id and the messages channel of its channel_values.
Checkpoint(cid, messages) ==
    [id |-> cid, channel_values |-> [messages |-> PyList(messages)]]

\* ------------------------------------------------------ conversation directory
\* The checkpoint's messages are appended to the messages the document had.
ConversationDocAppending(config, checkpoint, metadata, utcnow) ==
    LET had == {d \in conversations : d.id = config.thread_id /\ d.userId = config.user_id}
        old == IF had = {} THEN <<>> ELSE (CHOOSE d \in had : TRUE).messages.items
        new == serialize_for_cosmosdb(
                   IF "messages" \in DOMAIN checkpoint.channel_values
                   THEN checkpoint.channel_values.messages ELSE PyList(<<>>))
    IN  [id |-> config.thread_id,
         userId |-> config.user_id,
         lastUpdated |-> IsoFormat(utcnow),
         messages |-> PyList(old \o new.items),
         checkpointId |-> checkpoint.id,
         metadata |-> serialize_for_cosmosdb(metadata)]

ConversationDoc(config, checkpoint, metadata, utcnow) ==
    [id |-> config.thread_id,
     userId |-> config.user_id,
     lastUpdated |-> IsoFormat(utcnow),
     messages |-> serialize_for_cosmosdb(
                     IF "messages" \in DOMAIN checkpoint.channel_values
                     THEN checkpoint.channel_values.messages ELSE PyList(<<>>)),
     checkpointId |-> checkpoint.id,
     metadata |-> serialize_for_cosmosdb(metadata)]

\* The document is upserted whether or not the config carries a user_id.
update_conversation_document_always(config, checkpoint, metadata) ==
    UpsertItem(conversations, ConversationDoc(config, checkpoint, metadata, now), "userId")

\* Checkpoints of a sub-graph namespace leave the document as it is.
update_conversation_document_root_only(config, checkpoint, metadata) ==
    IF config.user_id = NoUser \/ config.checkpoint_ns # ""
    THEN conversations
    ELSE UpsertItem(conversations,
                    ConversationDoc(config, checkpoint, metadata, now), "userId")

\* _update_conversation_document: the conversations container it leaves.
update_conversation_document(config, checkpoint, metadata) ==
    IF config.user_id = NoUser
    THEN conversations
    ELSE UpsertItem(conversations,
                    ConversationDoc(config, checkpoint, metadata, now), "userId")

\* SELECT * FROM c WHERE c.userId = @user_id ORDER BY c.lastUpdated DESC:
\* every order the store may return, documents of equal lastUpdated in any order.
ConversationsIn(container, user_id) == {d \in container : d.userId = user_id}
ConversationsOf(user_id) == ConversationsIn(conversations, user_id)
\* ORDER BY c.lastUpdated ASC in place of DESC.
QueryByUserAscending(container, user_id) ==
    {q \in Orderings(ConversationsIn(container, user_id)) :
        \A i, j \in DOMAIN q : i < j => q[i].lastUpdated.iso <= q[j].lastUpdated.iso}
QueryByUser(container, user_id) ==
    {q \in Orderings(ConversationsIn(container, user_id)) :
        \A i, j \in DOMAIN q : i < j => q[i].lastUpdated.iso >= q[j].lastUpdated.iso}

\* ------------------------------------------------------------------ actions
\* The parent is taken from the checkpoint being saved, not from the config.
CheckpointDocSelfParent(config, checkpoint, metadata) ==
    LET typed == dumps_typed(checkpoint) IN
    [id |-> config.thread_id \o "_" \o config.checkpoint_ns \o "_" \o ToString(checkpoint.id),
     parent_checkpoint_id |-> checkpoint.id,
     type |-> typed[1],
     checkpoint |-> typed[2],
     metadata |-> dumps(metadata),
     thread_id |-> config.thread_id,
     checkpoint_ns |-> config.checkpoint_ns,
     checkpoint_id |-> checkpoint.id]

\* The document id is drawn anew at every call, instead of being derived from the
\* thread, the namespace and the checkpoint id.
CheckpointDocFreshId(config, checkpoint, metadata) ==
    LET typed == dumps_typed(checkpoint) IN
    [id |-> config.thread_id \o "_" \o config.checkpoint_ns \o "_" \o ToString(checkpoint.id)
              \o "_" \o ToString(calls),
     parent_checkpoint_id |-> config.checkpoint_id,
     type |-> typed[1],
     checkpoint |-> typed[2],
     metadata |-> dumps(metadata),
     thread_id |-> config.thread_id,
     checkpoint_ns |-> config.checkpoint_ns,
     checkpoint_id |-> checkpoint.id]

CheckpointDoc(config, checkpoint, metadata) ==
    LET typed == dumps_typed(checkpoint) IN
    [id |-> config.thread_id \o "_" \o config.checkpoint_ns \o "_" \o ToString(checkpoint.id),
     parent_checkpoint_id |-> config.checkpoint_id,
     type |-> typed[1],
     checkpoint |-> typed[2],
     metadata |-> dumps(metadata),
     thread_id |-> config.thread_id,
     checkpoint_ns |-> config.checkpoint_ns,
     checkpoint_id |-> checkpoint.id]

\* Where a put may fail: nowhere, or the store rejects the upsert of the checkpoint
\* document, or the upsert of the conversation document.
StoreFailures == {"none", "checkpoints", "conversations"}

\* aput: dumps_typed, upsert of the checkpoint document, then
\* _update_conversation_document; an exception at any of them leaves what the
\* earlier steps stored and is raised as RuntimeError (ok = FALSE).
aput_with(config, checkpoint, metadata, failure) ==
    LET encoded == ~DumpsTypedRaises(checkpoint)
        same == {d \in checkpoints : /\ d.thread_id = config.thread_id
                                     /\ d.checkpoint_ns = config.checkpoint_ns
                                     /\ d.checkpoint_id = checkpoint.id
                                     /\ d.parent_checkpoint_id = config.checkpoint_id
                                     /\ encoded
                                     /\ <<d.type, d.checkpoint>> = dumps_typed(checkpoint)
                                     /\ d.metadata = dumps(metadata)}
        stored == encoded /\ failure # "checkpoints"
        updated == stored /\ ~(failure = "conversations" /\ config.user_id # NoUser)
    IN  /\ checkpoints' = IF stored
                          THEN UpsertItem(checkpoints,
                                          CheckpointDoc(config, checkpoint, metadata),
                                          "thread_id")
                          ELSE checkpoints
        /\ conversations' = IF updated
                            THEN update_conversation_document(config, checkpoint, metadata)
                            ELSE conversations
        /\ last' = [Returned("aput", config.thread_id, config.user_id,
                             config.checkpoint_ns, checkpoint.id, updated, "", {})
                    EXCEPT !.parent = config.checkpoint_id, !.found = Cardinality(same)]
        /\ cleaner' = IF updated /\ cleaner.pc # "idle" /\ cleaner.user_id = config.user_id
                      THEN [cleaner EXCEPT !.during = @ + 1] ELSE cleaner
        /\ UNCHANGED <<writes, now, allocated>>

\* aput against a store that accepts every upsert.
aput(config, checkpoint, metadata) == aput_with(config, checkpoint, metadata, "none")

\* The wall clock advances between calls (two calls may read the same instant).
Tick ==
    /\ now < MaxClock
    /\ now' = now + 1
    /\ UNCHANGED <<conversations, checkpoints, writes, allocated, cleaner, last>>

\* aput_writes: one document per (channel, value) pair, indexed by its position.
WriteDoc(config, task_id, idx, channel, value) ==
    LET typed == dumps_typed(value) IN
    [id |-> config.thread_id \o "_" \o config.checkpoint_ns \o "_"
              \o ToString(config.checkpoint_id) \o "_" \o task_id \o "_" \o ToString(idx),
     thread_id |-> config.thread_id,
     checkpoint_ns |-> config.checkpoint_ns,
     checkpoint_id |-> config.checkpoint_id,
     task_id |-> task_id,
     idx |-> idx,
     channel |-> channel,
     type |-> typed[1],
     value |-> typed[2]]

\* The batch replaces the writes the checkpoint had, instead of being upserted.
UpsertWritesReplacing(container, config, batch, task_id, n, rejected) ==
    {d \in container : ~(/\ d.thread_id = config.thread_id
                         /\ d.checkpoint_ns = config.checkpoint_ns
                         /\ d.checkpoint_id = config.checkpoint_id)}
    \cup {[id |-> config.thread_id \o "_" \o config.checkpoint_ns \o "_"
                    \o ToString(config.checkpoint_id) \o "_" \o task_id \o "_"
                    \o ToString(i - 1),
            thread_id |-> config.thread_id,
            checkpoint_ns |-> config.checkpoint_ns,
            checkpoint_id |-> config.checkpoint_id,
            task_id |-> task_id,
            idx |-> i - 1,
            channel |-> batch[i][1],
            type |-> dumps_typed(batch[i][2])[1],
            value |-> dumps_typed(batch[i][2])[2]] : i \in 1..n}

\* The loop ends at the first write that fails, instead of going on with the rest.
RECURSIVE UpsertWritesStopping(_, _, _, _, _, _)
UpsertWritesStopping(container, config, batch, task_id, n, rejected) ==
    IF n = 0 THEN container
    ELSE IF \E i \in 1..n : DumpsTypedRaises(batch[i][2]) \/ i \in rejected
         THEN UpsertWritesStopping(container, config, batch, task_id, n - 1, rejected)
         ELSE UpsertItem(UpsertWritesStopping(container, config, batch, task_id, n - 1,
                                              rejected),
                         WriteDoc(config, task_id, n - 1, batch[n][1], batch[n][2]),
                         "thread_id")

\* The writes container after the first n writes of the batch were upserted, in
\* order; a write whose value dumps_typed fails on, or whose upsert the store
\* refuses (the positions in rejected), is logged and skipped.
RECURSIVE UpsertWrites(_, _, _, _, _, _)
UpsertWrites(container, config, batch, task_id, n, rejected) ==
    IF n = 0 THEN container
    ELSE IF DumpsTypedRaises(batch[n][2]) \/ n \in rejected
         THEN UpsertWrites(container, config, batch, task_id, n - 1, rejected)
         ELSE UpsertItem(UpsertWrites(container, config, batch, task_id, n - 1, rejected),
                         WriteDoc(config, task_id, n - 1, batch[n][1], batch[n][2]),
                         "thread_id")

\* aput_writes: config["configurable"]["checkpoint_id"] of a config that carries
\* none is a KeyError, raised as RuntimeError before any write (ok = FALSE).
aput_writes_with(config, batch, task_id, rejected) ==
    LET keyed == config.checkpoint_id # NoCheckpointId IN
    /\ writes' = IF keyed
                 THEN UpsertWrites(writes, config, batch, task_id, Len(batch), rejected)
                 ELSE writes
    /\ last' = [Returned("aput_writes", config.thread_id, config.user_id,
                         config.checkpoint_ns, config.checkpoint_id, keyed, task_id, {})
                EXCEPT !.batch = batch, !.rejected = rejected]
    /\ UNCHANGED <<conversations, checkpoints, now, allocated, cleaner>>

\* aput_writes against a store that accepts every upsert.
aput_writes(config, batch, task_id) == aput_writes_with(config, batch, task_id, {})

\* The thread ids in use: synthesized before, or stored in a container.
UsedThreadIds ==
    allocated \cup {d.id : d \in conversations}
              \cup {d.thread_id : d \in checkpoints \cup writes}

\* The fresh thread id is stored as an empty Conversation Document at once.
get_or_create_eager(user_id) ==
    /\ \E q \in QueryByUser(conversations, user_id) :
         IF Len(q) > 0
         THEN /\ last' = Returned("get_or_create", "", user_id, "", NoCheckpointId, TRUE,
                                  q[1].id, {})
              /\ allocated' = allocated
              /\ conversations' = conversations
         ELSE \E fresh \in Threads \ UsedThreadIds :
                /\ last' = Returned("get_or_create", "", user_id, "", NoCheckpointId, TRUE,
                                    fresh, {})
                /\ allocated' = allocated \cup {fresh}
                /\ conversations' =
                      UpsertItem(conversations,
                                 [id |-> fresh, userId |-> user_id,
                                  lastUpdated |-> IsoFormat(now),
                                  messages |-> PyList(<<>>),
                                  checkpointId |-> NoCheckpointId,
                                  metadata |-> EmptyDict], "userId")
    /\ UNCHANGED <<checkpoints, writes, now, cleaner>>

\* get_or_create_user_conversation: the id of the user's most recently updated
\* document, else a fresh uuid4; nothing is written.
get_or_create_user_conversation(user_id) ==
    /\ \E q \in QueryByUser(conversations, user_id) :
         IF Len(q) > 0
         THEN /\ last' = Returned("get_or_create", "", user_id, "", NoCheckpointId, TRUE,
                                  q[1].id, {})
              /\ allocated' = allocated
         ELSE \E fresh \in Threads \ UsedThreadIds :
                /\ last' = Returned("get_or_create", "", user_id, "", NoCheckpointId, TRUE,
                                    fresh, {})
                /\ allocated' = allocated \cup {fresh}
    /\ UNCHANGED <<conversations, checkpoints, writes, now, cleaner>>

\* cleanup_old_conversations run as one uninterrupted call: keep conversations[0],
\* delete conversations[1:].
\* Only the first document of conversations[1:] is deleted.
DeleteFirstOnly(container, todo) ==
    IF todo = <<>> THEN container
    ELSE DeleteItem(container, Head(todo).id, "userId", Head(todo).userId)
RECURSIVE DeleteConversations(_, _)
DeleteConversations(container, todo) ==
    IF todo = <<>> THEN container
    ELSE DeleteConversations(DeleteItem(container, Head(todo).id, "userId", Head(todo).userId),
                             Tail(todo))

\* Each extra conversation is removed with the checkpoints of its thread.
cleanup_with_checkpoints(user_id) ==
    /\ \E q \in QueryByUser(conversations, user_id) :
         /\ conversations' = IF Len(q) <= 1 THEN conversations
                             ELSE DeleteConversations(conversations, Tail(q))
         /\ checkpoints' = {d \in checkpoints :
                              \A i \in 2..Len(q) : d.thread_id # q[i].id}
         /\ last' = [Returned("cleanup", "", user_id, "", NoCheckpointId, TRUE,
                              IF Len(q) = 0 THEN "" ELSE q[1].id,
                              IF Len(q) <= 1 THEN {} ELSE {q[i].id : i \in 2..Len(q)})
                        EXCEPT !.found = Len(q)]
    /\ UNCHANGED <<writes, now, allocated, cleaner>>

cleanup_old_conversations(user_id) ==
    /\ \E q \in QueryByUser(conversations, user_id) :
         /\ conversations' = IF Len(q) <= 1 THEN conversations
                             ELSE DeleteConversations(conversations, Tail(q))
         /\ last' = [Returned("cleanup", "", user_id, "", NoCheckpointId, TRUE,
                              IF Len(q) = 0 THEN "" ELSE q[1].id,
                              IF Len(q) <= 1 THEN {} ELSE {q[i].id : i \in 2..Len(q)})
                        EXCEPT !.found = Len(q)]
    /\ UNCHANGED <<checkpoints, writes, now, allocated, cleaner>>

\* cleanup_old_conversations as the store sees it: the query, then one delete_item
\* per document of conversations[1:], then the return; other calls may come between.
cleanup_query(user_id) ==
    /\ cleaner.pc = "idle"
    /\ \E q \in QueryByUser(conversations, user_id) :
         cleaner' = [pc |-> "deleting", user_id |-> user_id,
                     todo |-> IF Len(q) <= 1 THEN <<>> ELSE Tail(q),
                     kept |-> IF Len(q) = 0 THEN "" ELSE q[1].id,
                     found |-> Len(q), deleted |-> {}, during |-> 0]
    /\ UNCHANGED <<conversations, checkpoints, writes, now, allocated, last>>

\* The loop passes over the document without deleting it.
cleanup_delete_skipped ==
    /\ cleaner.pc = "deleting"
    /\ cleaner.todo # <<>>
    /\ cleaner' = [cleaner EXCEPT !.todo = Tail(@)]
    /\ UNCHANGED <<conversations, checkpoints, writes, now, allocated, last>>

cleanup_delete ==
    /\ cleaner.pc = "deleting"
    /\ cleaner.todo # <<>>
    /\ LET conv == Head(cleaner.todo) IN
         IF ItemExists(conversations, conv.id, "userId", conv.userId)
         THEN /\ conversations' = DeleteItem(conversations, conv.id, "userId", conv.userId)
              /\ cleaner' = [cleaner EXCEPT !.todo = Tail(@), !.deleted = @ \cup {conv.id}]
              /\ last' = last
         ELSE \* delete_item raises: the call ends, the rest is not deleted
              /\ conversations' = conversations
              /\ cleaner' = Idle
              /\ last' = [Returned("cleanup", "", cleaner.user_id, "", NoCheckpointId,
                                   FALSE, cleaner.kept, cleaner.deleted)
                          EXCEPT !.found = cleaner.found, !.during = cleaner.during]
    /\ UNCHANGED <<checkpoints, writes, now, allocated>>

cleanup_return ==
    /\ cleaner.pc = "deleting"
    /\ cleaner.todo = <<>>
    /\ cleaner' = Idle
    /\ last' = [Returned("cleanup", "", cleaner.user_id, "", NoCheckpointId, TRUE,
                         cleaner.kept, cleaner.deleted)
                EXCEPT !.found = cleaner.found, !.during = cleaner.during]
    /\ UNCHANGED <<conversations, checkpoints, writes, now, allocated>>

\* delete_conversation: the conversation document the id query returns first, every
\* checkpoint of the thread, and the writes its third query returns.  That query
\* names @thread_id and passes no parameters: the store either rejects it (the call
\* returns False) or matches no document (the call returns True).
\* c.thread_id = @thread_id with @thread_id unbound holds of no document.
UnboundParameterQuery(container) == {d \in container : FALSE}
DeleteCheckpoints(container, thread_id) ==
    {d \in container : d.thread_id # thread_id}

\* What delete_conversation does to the containers.
DeleteConversationItems(thread_id) ==
    /\ LET found == {d \in conversations : d.id = thread_id} IN
         IF found = {}
         THEN conversations' = conversations
         ELSE \E conv \in found :
                conversations' = DeleteItem(conversations, thread_id, "userId", conv.userId)
    /\ checkpoints' = DeleteCheckpoints(checkpoints, thread_id)
    /\ writes' = writes \ UnboundParameterQuery(writes)
    /\ UNCHANGED <<now, allocated, cleaner>>

delete_conversation(thread_id) ==
    /\ DeleteConversationItems(thread_id)
    /\ \E rejected \in BOOLEAN :
         last' = Returned("delete", thread_id, NoUser, "", NoCheckpointId, ~rejected, "", {})

\* The status of the response when the try block of an endpoint raises
\* HTTPException(status): HTTPException is an Exception, the handler's
\* `except Exception` catches it and raises HTTPException(500) in its place.
RaisedInTry(status) == 500

\* DELETE /conversations/{thread_id}: the id query on the conversations container,
\* 404 raised when it returns nothing; else delete_conversation, 404 raised when it
\* returns False, 200 with a message when it returns True.
delete_conversation_thread(thread_id) ==
    IF \A d \in conversations : d.id # thread_id
    THEN /\ last' = [Returned("delete_conversation_thread", thread_id, NoUser, "",
                              NoCheckpointId, FALSE, "", {})
                     EXCEPT !.status = RaisedInTry(404)]
         /\ UNCHANGED <<conversations, checkpoints, writes, now, allocated, cleaner>>
    ELSE /\ DeleteConversationItems(thread_id)
         /\ \E rejected \in BOOLEAN :
              last' = [Returned("delete_conversation_thread", thread_id, NoUser, "",
                                NoCheckpointId, ~rejected, "", {})
                       EXCEPT !.status = IF rejected THEN RaisedInTry(404) ELSE 200]

\* ------------------------------------------------------------------ queries
\* limit=None
NoLimit == -1
\* first_message_preview keeps this many characters of the content.
PreviewLength == 100
NoneValue == PyNone

\* ORDER BY c.checkpoint_id ASC in place of DESC.
RECURSIVE OrderByCheckpointIdAsc(_)
OrderByCheckpointIdAsc(docs) ==
    IF docs = {} THEN <<>>
    ELSE LET low == CHOOSE d \in docs : \A e \in docs : e.checkpoint_id >= d.checkpoint_id
         IN  <<low>> \o OrderByCheckpointIdAsc(docs \ {low})

\* ORDER BY c.checkpoint_id DESC
RECURSIVE OrderByCheckpointIdDesc(_)
OrderByCheckpointIdDesc(docs) ==
    IF docs = {} THEN <<>>
    ELSE LET top == CHOOSE d \in docs : \A e \in docs : e.checkpoint_id <= d.checkpoint_id
         IN  <<top>> \o OrderByCheckpointIdDesc(docs \ {top})

\* The checkpoint id of the config is not looked at: always the most recent.
CheckpointQueryLatest(container, config) ==
    OrderByCheckpointIdDesc(
        {d \in container : /\ d.thread_id = config.thread_id
                             /\ d.checkpoint_ns = config.checkpoint_ns})

\* The checkpoint query of aget_tuple: exact when the config carries a checkpoint id,
\* else every checkpoint of the thread and namespace, most recent first.
CheckpointQuery(container, config) ==
    IF config.checkpoint_id # NoCheckpointId
    THEN OrderByCheckpointIdDesc(
            {d \in container : /\ d.thread_id = config.thread_id
                                 /\ d.checkpoint_ns = config.checkpoint_ns
                                 /\ d.checkpoint_id = config.checkpoint_id})
    ELSE OrderByCheckpointIdDesc(
            {d \in container : /\ d.thread_id = config.thread_id
                               /\ d.checkpoint_ns = config.checkpoint_ns})

\* The namespace is left out of the WHERE clause.
WritesQueryAnyNamespace(container, thread_id, checkpoint_ns, checkpoint_id) ==
    {d \in container : /\ d.thread_id = thread_id
                    /\ d.checkpoint_id = checkpoint_id}

\* The writes query of aget_tuple (no ORDER BY).
WritesQuery(container, thread_id, checkpoint_ns, checkpoint_id) ==
    {d \in container : /\ d.thread_id = thread_id
                    /\ d.checkpoint_ns = checkpoint_ns
                    /\ d.checkpoint_id = checkpoint_id}

ParentConfig(thread_id, checkpoint_ns, doc) ==
    IF doc.parent_checkpoint_id # NoCheckpointId
    THEN [configurable |-> [thread_id |-> thread_id, checkpoint_ns |-> checkpoint_ns,
                            checkpoint_id |-> doc.parent_checkpoint_id]]
    ELSE NoneValue

PendingWrite(write_doc) ==
    <<write_doc.task_id, write_doc.channel,
      loads_typed(<<write_doc.type, write_doc.value>>)>>

CheckpointTuple(config, checkpoint, metadata, parent_config, pending_writes) ==
    [config |-> config, checkpoint |-> checkpoint, metadata |-> metadata,
     parent_config |-> parent_config, pending_writes |-> pending_writes]

\* aget_tuple over the two containers it reads: the values it may return; the store
\* returns the writes in any order.
GetTuple(checkpoints_container, writes_container, config) ==
    LET result == CheckpointQuery(checkpoints_container, config) IN
    IF result = <<>> THEN {NoneValue}
    ELSE LET doc == result[1]
             stored == WritesQuery(writes_container, config.thread_id,
                                   config.checkpoint_ns, doc.checkpoint_id)
         IN
         \* except Exception: return None
         IF \/ LoadsTypedRaises(<<doc.type, doc.checkpoint>>)
            \/ \E w \in stored : LoadsTypedRaises(<<w.type, w.value>>)
         THEN {NoneValue}
         ELSE
         {CheckpointTuple(
              [configurable |-> [thread_id |-> config.thread_id,
                                 checkpoint_ns |-> config.checkpoint_ns,
                                 checkpoint_id |-> doc.checkpoint_id]],
              loads_typed(<<doc.type, doc.checkpoint>>),
              loads(doc.metadata),
              ParentConfig(config.thread_id, config.checkpoint_ns, doc),
              [i \in DOMAIN serialized_writes |-> PendingWrite(serialized_writes[i])]) :
          serialized_writes \in Orderings(stored)}

aget_tuple(config) == GetTuple(checkpoints, writes, config)

\* c.metadata.<key> of a stored checkpoint document: the stored metadata is the
\* base64 text dumps() produced, which has no properties.
MetadataProperty(doc, key) ==
    IF "b64" \in DOMAIN doc.metadata THEN [undefined |-> TRUE]
    ELSE IF key \in DOMAIN doc.metadata THEN doc.metadata[key] ELSE [undefined |-> TRUE]

\* alist over the container it reads: the tuples it yields, in order.  filter maps
\* metadata keys to values, before is a checkpoint id or NoCheckpointId, limit a
\* number or NoLimit.
ListCheckpoints(container, config, filter, before, limit) ==
    LET matching ==
            {d \in container :
                /\ d.thread_id = config.thread_id
                /\ d.checkpoint_ns = config.checkpoint_ns
                /\ \A key \in DOMAIN filter : MetadataProperty(d, key) = filter[key]
                /\ before # NoCheckpointId => d.checkpoint_id < before}
        ordered == OrderByCheckpointIdDesc(matching)
        limited == IF limit # NoLimit /\ limit < Len(ordered)
                   THEN SubSeq(ordered, 1, limit) ELSE ordered
        \* a document whose checkpoint fails to decode is logged and skipped
        Decodes(d) == ~LoadsTypedRaises(<<d.type, d.checkpoint>>)
        result == SelectSeq(limited, Decodes)
    IN  [i \in DOMAIN result |->
            CheckpointTuple(
                [configurable |-> [thread_id |-> result[i].thread_id,
                                   checkpoint_ns |-> result[i].checkpoint_ns,
                                   checkpoint_id |-> result[i].checkpoint_id]],
                loads_typed(<<result[i].type, result[i].checkpoint>>),
                loads(result[i].metadata),
                ParentConfig(result[i].thread_id, result[i].checkpoint_ns, result[i]),
                <<>>)]

alist(config, filter, before, limit) ==
    ListCheckpoints(checkpoints, config, filter, before, limit)

\* One entry of get_conversations_by_user.
ConversationSummary(doc) ==
    LET messages == doc.messages
        isList == messages.py = "list"
        first_msg == messages.items[1]
        content == first_msg.items.content.v
    IN  [thread_id |-> doc.id,
         user_id |-> doc.userId,
         last_updated |-> FromIsoFormat(doc.lastUpdated),
         message_count |-> IF isList THEN Len(messages.items) ELSE 0,
         first_message_preview |->
            IF isList /\ Len(messages.items) > 0 /\ first_msg.py = "dict"
            THEN [role |-> first_msg.items.type.v,
                  content |-> IF Len(content) > PreviewLength
                              THEN SubSeq(content, 1, PreviewLength) \o "..."
                              ELSE content,
                  timestamp |-> doc.lastUpdated]
            ELSE NoneValue]

\* get_conversations_by_user over the container it reads: the lists it may return
\* (documents of equal lastUpdated come in any order).
ListByUser(container, user_id, limit) ==
    {[i \in 1..(IF limit # NoLimit /\ limit < Len(q) THEN limit ELSE Len(q)) |->
         ConversationSummary(q[i])] : q \in QueryByUser(container, user_id)}

get_conversations_by_user(user_id, limit) == ListByUser(conversations, user_id, limit)

\* ----------------------------------------------------------- specifications
Hi == HumanMessage("Hi", "m1")
Hello == AIMessage("Hello!", "m2")
InputMetadata == PyDict([source |-> PyStr("input")])
LoopMetadata == PyDict([source |-> PyStr("loop")])

\* The conversation directory under whole, non-overlapping calls.
PutCall ==
    /\ calls < MaxCalls
    /\ calls' = calls + 1
    /\ UNCHANGED <<session, codec>>
    /\ \E t \in Threads, u \in Users \cup {NoUser} :
         aput(Config(t, "", NoCheckpointId, u), Checkpoint(1, <<Hi>>), InputMetadata)
GetOrCreateCall ==
    /\ calls < MaxCalls
    /\ calls' = calls + 1
    /\ UNCHANGED <<session, codec>>
    /\ \E u \in Users : get_or_create_user_conversation(u)
CleanupCall ==
    /\ calls < MaxCalls
    /\ calls' = calls + 1
    /\ UNCHANGED <<session, codec>>
    /\ \E u \in Users : cleanup_old_conversations(u)
DeleteCall ==
    /\ calls < MaxCalls
    /\ calls' = calls + 1
    /\ UNCHANGED <<session, codec>>
    /\ \E t \in Threads : delete_conversation(t)
ClockTick == Tick /\ UNCHANGED <<calls, session, codec>>

Next == PutCall \/ GetOrCreateCall \/ CleanupCall \/ DeleteCall \/ ClockTick

Spec == Init /\ [][Next]_vars

\* cleanup_old_conversations of one user racing with upserts for that user: the
\* query, each delete_item and the return are separate steps of the store.
RaceUser == "alice"
RacePut ==
    /\ cleaner.pc # "idle" => cleaner.during < MaxDuring
    /\ \E t \in Threads :
         aput(Config(t, "", NoCheckpointId, RaceUser), Checkpoint(1, <<Hi>>), InputMetadata)
    /\ UNCHANGED <<calls, session, codec>>
RaceCleanupQuery == cleanup_query(RaceUser) /\ UNCHANGED <<calls, session, codec>>
RaceCleanupDelete == cleanup_delete /\ UNCHANGED <<calls, session, codec>>
RaceCleanupReturn == cleanup_return /\ UNCHANGED <<calls, session, codec>>

NextRace ==
    RacePut \/ RaceCleanupQuery \/ RaceCleanupDelete \/ RaceCleanupReturn \/ ClockTick

SpecRace == Init /\ [][NextRace]_vars

\* Two cleanup_old_conversations calls of one user at once, with upserts for that
\* user: the steps of the first call are interleaved with the other calls, the
\* second call runs from its query to its last delete between two of them.
RaceOtherCleanup ==
    /\ cleanup_old_conversations(RaceUser)
    /\ UNCHANGED <<calls, session, codec>>

NextRaces ==
    \/ RacePut \/ RaceCleanupQuery \/ RaceCleanupDelete \/ RaceCleanupReturn
    \/ RaceOtherCleanup \/ ClockTick

SpecRaces == Init /\ [][NextRaces]_vars

\* The checkpoint store: puts of any checkpoint id, without a parent (the first
\* message) or with one (the first two messages), on a few (thread, namespace)
\* pairs, and deletes; t1 is alice's thread, t2 is anonymous.
StoreKeys == {<<"t1", "">>, <<"t1", "sub">>, <<"t2", "">>}
StoreUser(thread_id) == IF thread_id = "t1" THEN "alice" ELSE NoUser
Parents(cid) == {NoCheckpointId, IF cid > 1 THEN cid - 1 ELSE MaxCid}
Payloads == {<<Hi>>, <<Hi, Hello>>}

StorePut ==
    /\ calls < MaxStoreCalls
    /\ calls' = calls + 1
    /\ UNCHANGED <<session, codec>>
    /\ \E key \in StoreKeys, cid \in Cids :
         \E parent \in Parents(cid) :
            IF parent = NoCheckpointId
            THEN aput(Config(key[1], key[2], parent, StoreUser(key[1])),
                      Checkpoint(cid, <<Hi>>), InputMetadata)
            ELSE aput(Config(key[1], key[2], parent, StoreUser(key[1])),
                      Checkpoint(cid, <<Hi, Hello>>), LoopMetadata)
StoreDelete ==
    /\ calls < MaxStoreCalls
    /\ calls' = calls + 1
    /\ UNCHANGED <<session, codec>>
    /\ \E t \in {key[1] : key \in StoreKeys} : delete_conversation(t)

NextStore == StorePut \/ StoreDelete

SpecStore == Init /\ [][NextStore]_vars

\* The pending writes: batches of one or two writes of a task on stored or missing
\* checkpoints, with puts and deletes.
WriteBatches ==
    {<<<<"messages", PyStr("a")>>>>, <<<<"messages", PyStr("b")>>>>,
     <<<<"messages", PyStr("a")>>, <<"messages", PyStr("b")>>>>}

WritesPut ==
    /\ calls < MaxWriteCalls
    /\ calls' = calls + 1
    /\ UNCHANGED <<session, codec>>
    /\ \E key \in StoreKeys, cid \in Cids :
         \* a checkpoint id put again carries the grown message list
         LET stored == \E d \in checkpoints : /\ d.thread_id = key[1]
                                               /\ d.checkpoint_ns = key[2]
                                               /\ d.checkpoint_id = cid
         IN  aput(Config(key[1], key[2], NoCheckpointId, StoreUser(key[1])),
                  Checkpoint(cid, IF stored THEN <<Hi, Hello>> ELSE <<Hi>>),
                  InputMetadata)
WritesPutWrites ==
    /\ calls < MaxWriteCalls
    /\ calls' = calls + 1
    /\ UNCHANGED <<session, codec>>
    /\ \E key \in StoreKeys, cid \in Cids, batch \in WriteBatches :
         aput_writes(Config(key[1], key[2], cid, StoreUser(key[1])), batch, "task1")
WritesDelete ==
    /\ calls < MaxWriteCalls
    /\ calls' = calls + 1
    /\ UNCHANGED <<session, codec>>
    /\ \E t \in {key[1] : key \in StoreKeys} : delete_conversation(t)

NextWrites == WritesPut \/ WritesPutWrites \/ WritesDelete

SpecWrites == Init /\ [][NextWrites]_vars

\* Failures: puts and put_writes whose values the serializer may fail on, against a
\* store that may reject an upsert.
MaxFailCalls == 3
FailPayloads == {<<Hi>>, <<Hi, Lock>>, <<Hi, Handle>>}
FailBatches ==
    {<<<<"messages", PyStr("a")>>>>, <<<<"messages", Lock>>>>,
     <<<<"messages", PyStr("a")>>, <<"messages", Lock>>>>,
     <<<<"messages", Lock>>, <<"messages", PyStr("b")>>>>,
     <<<<"messages", PyStr("a")>>, <<"messages", PyStr("b")>>>>,
     <<<<"messages", Handle>>>>}

FailPut ==
    /\ calls < MaxFailCalls
    /\ calls' = calls + 1
    /\ UNCHANGED <<session, codec>>
    /\ \E thread_id \in {"t1", "t2"}, cid \in Cids, messages \in FailPayloads,
          failure \in StoreFailures :
         aput_with(Config(thread_id, "", NoCheckpointId, StoreUser(thread_id)),
                   Checkpoint(cid, messages), InputMetadata, failure)
FailPutWrites ==
    /\ calls < MaxFailCalls
    /\ calls' = calls + 1
    /\ UNCHANGED <<session, codec>>
    /\ \E cid \in Cids \cup {NoCheckpointId}, batch \in FailBatches,
          rejected \in {{}, {1}, {2}} :
         aput_writes_with(Config("t1", "", cid, StoreUser("t1")), batch, "task1",
                          rejected \cap DOMAIN batch)

NextFail == FailPut \/ FailPutWrites

SpecFail == Init /\ [][NextFail]_vars

\* Lazy thread creation: a thread id is looked up or synthesized, then checkpoints
\* of any thread are saved, with no, one or two messages.
MaxLazyCalls == 3
LazyPayloads == {<<>>, <<Hi>>, <<Hi, Hello>>}

LazyGetOrCreate ==
    /\ calls < MaxLazyCalls
    /\ calls' = calls + 1
    /\ UNCHANGED <<session, codec>>
    /\ \E u \in Users : get_or_create_user_conversation(u)
LazyPut ==
    /\ calls < MaxLazyCalls
    /\ calls' = calls + 1
    /\ UNCHANGED <<session, codec>>
    /\ \E t \in Threads, u \in Users, messages \in LazyPayloads :
         aput(Config(t, "", NoCheckpointId, u), Checkpoint(1, messages), InputMetadata)

NextLazy == LazyGetOrCreate \/ LazyPut

SpecLazy == Init /\ [][NextLazy]_vars

\* The session-aware agent: one inbound interaction at a time, served step by step.
MaxInteractions == 2
Entries == {"ainvoke", "invoke", "astream", "stream"}
SyncEntries == {"invoke", "stream"}
\* asyncio.get_event_loop() in the caller's thread: a loop that is running, a loop
\* that is not, or no loop (RuntimeError).  The async entries are awaited in a loop.
Loops(entry) == IF entry \in SyncEntries THEN {"running", "stopped", "none"}
                ELSE {"running"}
\* The exceptions a directory call may raise: a RuntimeError (event loop is closed,
\* session is closed) or an error response of the store.
FailureKinds == {"RuntimeError", "CosmosHttpResponseError"}

\* The session after _ensure_thread_id raised an exception of this kind.  invoke and
\* stream run it inside `try: ... except RuntimeError:`, whose handler calls
\* asyncio.run(self._ensure_thread_id(config)): under a loop that is not running
\* that runs the resolution again; under a running loop asyncio.run itself raises.
Raised(kind) ==
    IF /\ session.entry \in SyncEntries /\ session.loop = "stopped"
       /\ kind = "RuntimeError" /\ session.attempts = 1
    THEN [session EXCEPT !.pc = "ensure", !.attempts = 2, !.failures = @ + 1,
                         !.thread_id = ""]
    ELSE [session EXCEPT !.pc = "idle", !.failures = @ + 1, !.outcome = "aborted"]

\* ainvoke, invoke, astream, stream up to their call of _ensure_thread_id.  stream
\* under a running loop: run_until_complete raises RuntimeError, then asyncio.run too.
SessionReceive ==
    /\ session.pc = "idle"
    /\ calls < MaxInteractions
    /\ calls' = calls + 1
    /\ \E entry \in Entries, user_id \in Users \cup {NoUser} : \E loop \in Loops(entry) :
         session' = IF entry = "stream" /\ loop = "running"
                    THEN [NoSession EXCEPT !.entry = entry, !.loop = loop,
                                           !.user_id = user_id, !.outcome = "aborted"]
                    ELSE [NoSession EXCEPT !.entry = entry, !.loop = loop,
                                           !.user_id = user_id, !.pc = "ensure",
                                           !.attempts = 1]
    /\ UNCHANGED <<conversations, checkpoints, writes, now, allocated, cleaner, last,
                   codec>>

\* The anonymous branch reuses a thread id that is already in use.
ensure_anonymous_reusing ==
    /\ session.pc = "ensure"
    /\ session.user_id = NoUser
    /\ \E new_thread_id \in Threads :
         /\ session' = [session EXCEPT !.pc = "execute", !.thread_id = new_thread_id,
                                       !.config = [thread_id |-> new_thread_id,
                                                   user_id |-> NoUser],
                                       !.trace = Append(@, "bind")]
         /\ allocated' = allocated \cup {new_thread_id}
    /\ UNCHANGED <<conversations, checkpoints, writes, now, cleaner, last, calls,
                   codec>>

\* _ensure_thread_id without a user_id: uuid4, bound as thread_id.
ensure_anonymous ==
    /\ session.pc = "ensure"
    /\ session.user_id = NoUser
    /\ \E new_thread_id \in Threads \ UsedThreadIds :
         /\ session' = [session EXCEPT !.pc = "execute", !.thread_id = new_thread_id,
                                       !.config = [thread_id |-> new_thread_id,
                                                   user_id |-> NoUser],
                                       !.trace = Append(@, "bind")]
         /\ allocated' = allocated \cup {new_thread_id}
    /\ UNCHANGED <<conversations, checkpoints, writes, now, cleaner, last, calls,
                   codec>>

\* _ensure_thread_id with a user_id: get_or_create_user_conversation, or its exception.
ensure_lookup ==
    /\ session.pc = "ensure"
    /\ session.user_id # NoUser
    /\ \/ /\ get_or_create_user_conversation(session.user_id)
          /\ session' = [session EXCEPT !.pc = "cleanup", !.thread_id = last'.tid,
                                        !.trace = Append(@, "get_or_create")]
       \/ /\ \E kind \in FailureKinds :
                session' = [Raised(kind) EXCEPT !.trace = Append(@, "get_or_create")]
          /\ UNCHANGED <<conversations, checkpoints, writes, now, allocated, cleaner,
                         last>>
    /\ UNCHANGED <<calls, codec>>

\* then cleanup_old_conversations, or its exception.
ensure_cleanup ==
    /\ session.pc = "cleanup"
    /\ \/ /\ cleanup_old_conversations(session.user_id)
          /\ session' = [session EXCEPT !.pc = "bind", !.trace = Append(@, "cleanup")]
       \/ /\ \E kind \in FailureKinds :
                session' = [Raised(kind) EXCEPT !.trace = Append(@, "cleanup")]
          /\ UNCHANGED <<conversations, checkpoints, writes, now, allocated, cleaner,
                         last>>
    /\ UNCHANGED <<calls, codec>>

\* then thread_id and user_id are bound into config["configurable"].
ensure_bind ==
    /\ session.pc = "bind"
    /\ session' = [session EXCEPT !.pc = "execute",
                                  !.config = [thread_id |-> session.thread_id,
                                              user_id |-> session.user_id],
                                  !.trace = Append(@, "bind")]
    /\ UNCHANGED <<conversations, checkpoints, writes, now, allocated, cleaner, last,
                   calls, codec>>

\* super().ainvoke / invoke / astream / stream with the bound config: the agent's
\* execution step saves a checkpoint through the checkpointer.
SessionExecute ==
    /\ session.pc = "execute"
    /\ aput(Config(session.config.thread_id, "", NoCheckpointId, session.config.user_id),
            Checkpoint(1, <<Hi>>), InputMetadata)
    /\ session' = [session EXCEPT !.pc = "idle", !.outcome = "completed",
                                  !.trace = Append(@, "execute")]
    /\ UNCHANGED <<calls, codec>>

NextSession ==
    \/ SessionReceive \/ ensure_anonymous \/ ensure_lookup \/ ensure_cleanup
    \/ ensure_bind \/ SessionExecute

SpecSession == Init /\ [][NextSession]_vars

\* The object codec on its own: a value is encoded, then the encoding is decoded.
\* The values are the primitives, the three message classes, lists of up to
\* MaxWidth of those, and mappings holding one of those or such a list.
MaxWidth == 2
CodecStrings ==
    {"", "hi", "2024-01-01T10:00:00+00:00", "2024-01-01T10:00:00Z", "meet at T+1 h"}
Primitives ==
    {PyStr(s) : s \in CodecStrings} \cup {PyInt(0), PyInt(7)}
    \cup {PyBool(TRUE), PyBool(FALSE)} \cup {PyNone}
Messages ==
    {HumanMessage("hi", "m1"), AIMessage("2024-01-01T10:00:00Z", "m2"),
     SystemMessage("be brief", "m3")}
Leaves == Primitives \cup Messages
Lists == {PyList(q) : q \in UNION {[1..n -> Leaves] : n \in 0..MaxWidth}}
Mappings ==
    {PyDict([data |-> v]) : v \in Leaves \cup Lists}
    \cup {PyDict([_type |-> PyStr("note"), text |-> PyStr("hi")])}
CodecInputs == Leaves \cup Lists \cup Mappings

CodecReceive ==
    /\ codec.pc = "idle"
    /\ \E x \in CodecInputs : codec' = [NoCodec EXCEPT !.pc = "encode", !.x = x]
    /\ UNCHANGED <<conversations, checkpoints, writes, now, allocated, cleaner, calls,
                   last, session>>
CodecEncode ==
    /\ codec.pc = "encode"
    /\ codec' = [codec EXCEPT !.pc = "decode", !.encoded = serialize_for_cosmosdb(codec.x)]
    /\ UNCHANGED <<conversations, checkpoints, writes, now, allocated, cleaner, calls,
                   last, session>>
CodecDecode ==
    /\ codec.pc = "decode"
    /\ codec' = [codec EXCEPT !.pc = "done",
                              !.decoded = deserialize_from_cosmosdb(codec.encoded)]
    /\ UNCHANGED <<conversations, checkpoints, writes, now, allocated, cleaner, calls,
                   last, session>>

NextCodec == CodecReceive \/ CodecEncode \/ CodecDecode

SpecCodec == Init /\ [][NextCodec]_vars

\* Sessions of one user over time: alice calls ainvoke.  Between her interactions
\* more than hours_threshold may pass (the clock read in hours), and a client of
\* the checkpointer saves checkpoints of hers under thread ids of its own choice.
hours_threshold == 3

ResumeReceive ==
    /\ session.pc = "idle"
    /\ calls < MaxInteractions
    /\ calls' = calls + 1
    /\ session' = [NoSession EXCEPT !.entry = "ainvoke", !.loop = "running",
                                    !.user_id = "alice", !.pc = "ensure",
                                    !.attempts = 1]
    /\ UNCHANGED <<conversations, checkpoints, writes, now, allocated, cleaner, last,
                   codec>>

ResumePut ==
    /\ session.pc = "idle"
    /\ \E thread_id \in Threads :
         aput(Config(thread_id, "", NoCheckpointId, "alice"), Checkpoint(1, <<Hi>>),
              InputMetadata)
    /\ UNCHANGED <<calls, session, codec>>
ResumeWait ==
    /\ session.pc = "idle"
    /\ now <= MaxClock
    /\ now' = now + hours_threshold + 1
    /\ UNCHANGED <<conversations, checkpoints, writes, allocated, cleaner, calls, last,
                   session, codec>>

NextResume ==
    \/ ResumeReceive \/ ensure_lookup \/ ensure_cleanup \/ ensure_bind \/ SessionExecute
    \/ ResumePut \/ ResumeWait

SpecResume == Init /\ [][NextResume]_vars

\* The HTTP surface: checkpoints are saved by the agent, threads are deleted
\* through DELETE /conversations/{thread_id}.
MaxHttpCalls == 3

HttpPut ==
    /\ calls < MaxHttpCalls
    /\ calls' = calls + 1
    /\ UNCHANGED <<session, codec>>
    /\ \E t \in Threads, u \in Users \cup {NoUser} :
         aput(Config(t, "", NoCheckpointId, u), Checkpoint(1, <<Hi>>), InputMetadata)
HttpDelete ==
    /\ calls < MaxHttpCalls
    /\ calls' = calls + 1
    /\ UNCHANGED <<session, codec>>
    /\ \E t \in Threads : delete_conversation_thread(t)

NextHttp == HttpPut \/ HttpDelete

SpecHttp == Init /\ [][NextHttp]_vars

\* The directory next to the checkpoint store: checkpoints and pending writes of two
\* threads are saved for either user, and duplicates of a user are cleaned up.
MaxFrameCalls == 5
FrameThreads == {"t1", "t2"}

FramePut ==
    /\ calls < MaxFrameCalls
    /\ calls' = calls + 1
    /\ UNCHANGED <<session, codec>>
    /\ \E t \in FrameThreads, u \in Users :
         aput(Config(t, "", NoCheckpointId, u), Checkpoint(1, <<Hi>>), InputMetadata)
FramePutWrites ==
    /\ calls < MaxFrameCalls
    /\ calls' = calls + 1
    /\ UNCHANGED <<session, codec>>
    /\ \E t \in FrameThreads :
         aput_writes(Config(t, "", 1, NoUser), <<<<"messages", PyStr("a")>>>>, "task1")
FrameCleanup ==
    /\ calls < MaxFrameCalls
    /\ calls' = calls + 1
    /\ UNCHANGED <<session, codec>>
    /\ \E u \in Users : cleanup_old_conversations(u)

NextFrame == FramePut \/ FramePutWrites \/ FrameCleanup

SpecFrame == Init /\ [][NextFrame]_vars

\* ------------------------------------------------------------------- claims
\* C1 as stated: in every reachable state at most one Conversation Document exists
\* per user_id.  Two puts for one user with different thread_ids refute it.
C1_AtMostOnePerUserAlways ==
    \A u \in Users : Cardinality(ConversationsOf(u)) <= 1

\* C1, amended: in the state a completed reconcile_duplicates(user_id) leaves, at
\* most one Conversation Document exists for that user_id.
C1_AtMostOneAfterCleanup ==
    last.op = "cleanup" => Cardinality(ConversationsOf(last.user_id)) <= 1

C1_Witness ==
    /\ last.op = "cleanup"
    /\ Cardinality(last.deleted) >= 2
    /\ Cardinality(ConversationsOf(last.user_id)) = 1

\* C2: a reconcile_duplicates(user_id) call, made as a whole call after any number
\* of upserts for the user under different thread_ids, leaves exactly one document
\* of the user, and no document the user had before it has a later last_updated.
C2_CleanupKeepsLatest ==
    [][(last'.op = "cleanup" /\ calls' = calls + 1 /\ ConversationsOf(last'.user_id) # {})
        => \E d \in ConversationsOf(last'.user_id) :
              /\ ConversationsIn(conversations', last'.user_id) = {d}
              /\ \A e \in ConversationsOf(last'.user_id) :
                    e.lastUpdated.iso <= d.lastUpdated.iso]_vars

C2_Witness ==
    /\ last.op = "cleanup"
    /\ last.deleted # {}
    /\ \E d \in conversations :
         /\ ConversationsOf(last.user_id) = {d}
         /\ d.lastUpdated.iso > 1
         /\ d.id = last.tid

\* C3 as stated: whatever upserts land between the query, the deletes and the return
\* of reconcile_duplicates, at most two documents of the user are left.
C3_AtMostTwoLeft ==
    last.op = "cleanup" => Cardinality(ConversationsOf(last.user_id)) <= 2

\* C3, amended: a reconcile_duplicates racing with upserts of the same user leaves
\* at most one document plus one per upsert that landed while it ran (so more than
\* two are possible), and a reconcile during which no upsert landed leaves exactly
\* one document when the user had any.
C3_LeftBoundedByUpserts ==
    (last.op = "cleanup" /\ last.ok) =>
        LET left == Cardinality(ConversationsOf(last.user_id)) IN
        /\ left <= 1 + last.during
        /\ (last.during = 0 /\ last.found > 0) => left = 1

C3_Witness ==
    /\ last.op = "cleanup"
    /\ last.ok
    /\ last.deleted # {}
    /\ last.during >= 1
    /\ Cardinality(ConversationsOf(last.user_id)) = 1 + last.during

\* The configs get and list are asked with.
AllKeys == {key[1] : key \in StoreKeys} \X Namespaces
GetConfig(key, cid) == Config(key[1], key[2], cid, NoUser)
StoredIds(key) ==
    {d.checkpoint_id : d \in {c \in checkpoints : /\ c.thread_id = key[1]
                                                  /\ c.checkpoint_ns = key[2]}}
Greatest(ids) == CHOOSE m \in ids : \A n \in ids : n <= m
IsTupleOf(r, key, cid) ==
    /\ r # NoneValue
    /\ r.config.configurable = [thread_id |-> key[1], checkpoint_ns |-> key[2],
                                checkpoint_id |-> cid]
    /\ r.checkpoint.id = cid

\* C4: get with a checkpoint id returns the stored checkpoint of exactly that
\* (thread, namespace, id); get without one returns the stored checkpoint with the
\* greatest id of that (thread, namespace); both return None when none is stored.
C4_GetExactOrLatest ==
    \A key \in AllKeys :
        /\ \A cid \in Cids : \A r \in aget_tuple(GetConfig(key, cid)) :
              IF cid \in StoredIds(key) THEN IsTupleOf(r, key, cid) ELSE r = NoneValue
        /\ \A r \in aget_tuple(GetConfig(key, NoCheckpointId)) :
              IF StoredIds(key) # {} THEN IsTupleOf(r, key, Greatest(StoredIds(key)))
              ELSE r = NoneValue

C4_Witness ==
    \E key \in AllKeys, other \in AllKeys :
        /\ Cardinality(StoredIds(key)) >= 2
        /\ StoredIds(other) = {}
        /\ \E r \in aget_tuple(GetConfig(key, 1)) : IsTupleOf(r, key, 1)
        /\ \E r \in aget_tuple(GetConfig(key, NoCheckpointId)) : r # NoneValue /\ r.checkpoint.id > 1
        /\ aget_tuple(GetConfig(other, NoCheckpointId)) = {NoneValue}

\* The parent config a put with current checkpoint id X must lead to.
ExpectedParent(thread_id, ns, X) ==
    IF X = NoCheckpointId THEN NoneValue
    ELSE [configurable |-> [thread_id |-> thread_id, checkpoint_ns |-> ns,
                            checkpoint_id |-> X]]
ListAll(key) == alist(GetConfig(key, NoCheckpointId), <<>>, NoCheckpointId, NoLimit)

\* C5: after put(config carrying checkpoint id X, checkpoint C) returns, get and
\* list return C's tuple with the parent config naming X in the same thread and
\* namespace, and with parent config None when the config carried no checkpoint id.
C5_ParentChain ==
    last.op = "aput" =>
        LET key == <<last.thread_id, last.checkpoint_ns>>
            expected == ExpectedParent(last.thread_id, last.checkpoint_ns, last.parent)
        IN  /\ \A r \in aget_tuple(GetConfig(key, last.checkpoint_id)) :
                  IsTupleOf(r, key, last.checkpoint_id) /\ r.parent_config = expected
            /\ \E i \in DOMAIN ListAll(key) :
                  /\ IsTupleOf(ListAll(key)[i], key, last.checkpoint_id)
                  /\ ListAll(key)[i].parent_config = expected

C5_Witness ==
    /\ last.op = "aput"
    /\ last.parent # NoCheckpointId
    /\ last.parent \in StoredIds(<<last.thread_id, last.checkpoint_ns>>)
    /\ \E r \in aget_tuple(GetConfig(<<last.thread_id, last.checkpoint_ns>>, NoCheckpointId)) :
          /\ r # NoneValue
          /\ r.checkpoint.id = last.checkpoint_id
          /\ r.parent_config # NoneValue
          /\ r.parent_config.configurable.checkpoint_id = last.parent

ListedIds(tuples) == {tuples[i].config.configurable.checkpoint_id : i \in DOMAIN tuples}
StrictlyDescending(tuples) ==
    \A i, j \in DOMAIN tuples :
        i < j => tuples[i].config.configurable.checkpoint_id
                    > tuples[j].config.configurable.checkpoint_id

\* C6: every put on a (thread, namespace) adds its checkpoint to what list returns
\* for that pair, and list returns the checkpoints in strictly descending
\* checkpoint_id order, each once: so after puts with increasing ids list returns
\* exactly those checkpoints, most recent first.
C6_ListDescending ==
    [][\A key \in AllKeys, cid \in Cids :
          (/\ last'.op = "aput" /\ calls' = calls + 1
           /\ last'.thread_id = key[1] /\ last'.checkpoint_ns = key[2]
           /\ last'.checkpoint_id = cid)
          => LET before == ListAll(key)
                 after == ListCheckpoints(checkpoints', GetConfig(key, NoCheckpointId), <<>>,
                                          NoCheckpointId, NoLimit)
             IN  /\ ListedIds(after) = ListedIds(before) \cup {cid}
                 /\ StrictlyDescending(after)
                 /\ \A i \in DOMAIN after :
                       IsTupleOf(after[i], key, after[i].config.configurable.checkpoint_id)]_vars

C6_Witness ==
    /\ last.op = "aput"
    /\ LET listed == ListAll(<<last.thread_id, last.checkpoint_ns>>) IN
         /\ Len(listed) >= 2
         /\ listed[1].checkpoint.id = last.checkpoint_id
         /\ listed[2].checkpoint.id < last.checkpoint_id

\* The stored pending writes of exactly this thread, namespace and checkpoint id.
WritesOf(key, cid) ==
    {d \in writes : /\ d.thread_id = key[1]
                    /\ d.checkpoint_ns = key[2]
                    /\ d.checkpoint_id = cid}
Returns(pending_write, doc) ==
    pending_write = <<doc.task_id, doc.channel, loads_typed(<<doc.type, doc.value>>)>>
OneWrite(task_id, write) == <<task_id, write[1], write[2]>>

\* C7 as stated: after two put_writes calls for the same checkpoint and task_id, one
\* carrying a write and the next another, get on the owning checkpoint returns both
\* writes, the earlier first.
C7_BothWritesPersist ==
    [][\A key \in StoreKeys, cid \in Cids :
          (/\ last.op = "aput_writes" /\ last'.op = "aput_writes" /\ calls' = calls + 1
           /\ <<last.thread_id, last.checkpoint_ns>> = key /\ last.checkpoint_id = cid
           /\ <<last'.thread_id, last'.checkpoint_ns>> = key /\ last'.checkpoint_id = cid
           /\ last.tid = last'.tid
           /\ Len(last.batch) = 1 /\ Len(last'.batch) = 1 /\ last.batch # last'.batch
           /\ cid \in StoredIds(key))
          => \A r \in GetTuple(checkpoints', writes', GetConfig(key, cid)) :
                r.pending_writes = <<OneWrite(last.tid, last.batch[1]),
                                     OneWrite(last'.tid, last'.batch[1])>>]_vars

\* C8: the pending writes get returns with a checkpoint are exactly the stored
\* pending writes of that checkpoint's thread, namespace and checkpoint id.
C8_PendingWritesExact ==
    \A key \in AllKeys, cid \in Cids \cup {NoCheckpointId} :
        \A r \in aget_tuple(GetConfig(key, cid)) :
            r # NoneValue =>
                \E q \in Orderings(WritesOf(key, r.checkpoint.id)) :
                    /\ Len(r.pending_writes) = Len(q)
                    /\ \A i \in DOMAIN q : Returns(r.pending_writes[i], q[i])

C8_Witness ==
    \E key \in AllKeys, cid \in Cids :
        /\ \E r \in aget_tuple(GetConfig(key, cid)) :
              r # NoneValue /\ Len(r.pending_writes) >= 1
        /\ \E w \in writes :
              /\ w.thread_id = key[1]
              /\ w.checkpoint_ns # key[2] \/ w.checkpoint_id # cid

IsDeleteOf(thread_id, op, caller, n, m) ==
    op = "delete" /\ caller = thread_id /\ m = n + 1

\* C9 as stated: the stored content of a checkpoint or pending-write document never
\* changes, and the document disappears only through delete of its conversation.
C9_NeverMutated ==
    [][/\ \A d \in checkpoints :
            \/ d \in checkpoints'
            \/ IsDeleteOf(d.thread_id, last'.op, last'.thread_id, calls, calls')
       /\ \A w \in writes :
            \/ w \in writes'
            \/ IsDeleteOf(w.thread_id, last'.op, last'.thread_id, calls, calls')]_vars

\* C9, amended: a stored checkpoint (pending-write) document is replaced only by a
\* put (put_writes) that writes the same document id, every other call leaves it as
\* it is, and it disappears only through delete of its conversation.
C9_ReplacedOnlyBySameId ==
    [][/\ \A d \in checkpoints :
            \/ d \in checkpoints'
            \/ IsDeleteOf(d.thread_id, last'.op, last'.thread_id, calls, calls')
            \/ /\ last'.op = "aput" /\ calls' = calls + 1
               /\ d.thread_id = last'.thread_id
               /\ d.checkpoint_ns = last'.checkpoint_ns
               /\ d.checkpoint_id = last'.checkpoint_id
               /\ \E e \in checkpoints' : e.id = d.id /\ e.thread_id = d.thread_id
       /\ \A w \in writes :
            \/ w \in writes'
            \/ IsDeleteOf(w.thread_id, last'.op, last'.thread_id, calls, calls')
            \/ /\ last'.op = "aput_writes" /\ calls' = calls + 1
               /\ w.thread_id = last'.thread_id
               /\ w.checkpoint_ns = last'.checkpoint_ns
               /\ w.checkpoint_id = last'.checkpoint_id
               /\ w.task_id = last'.tid
               /\ w.idx < Len(last'.batch)
               /\ \E e \in writes' : e.id = w.id /\ e.thread_id = w.thread_id]_vars

\* A put_writes of one write has replaced the task's write 0 and left its write 1.
C9_Witness ==
    /\ last.op = "aput_writes"
    /\ Len(last.batch) = 1
    /\ \E w0, w1 \in writes :
         /\ w0.thread_id = last.thread_id /\ w1.thread_id = last.thread_id
         /\ w0.checkpoint_ns = last.checkpoint_ns /\ w1.checkpoint_ns = last.checkpoint_ns
         /\ w0.checkpoint_id = last.checkpoint_id /\ w1.checkpoint_id = last.checkpoint_id
         /\ w0.idx = 0 /\ w1.idx = 1
         /\ w0.value = w1.value

\* C10 as stated: after delete(thread_id) returns, no Conversation Document, no
\* checkpoint and no pending write of that thread_id remains, get returns None and
\* list_by_user of the owning user returns an empty list.
C10_DeleteRemovesEverything ==
    last.op = "delete" =>
        /\ \A d \in conversations : d.id # last.thread_id
        /\ \A d \in checkpoints : d.thread_id # last.thread_id
        /\ \A w \in writes : w.thread_id # last.thread_id
        /\ aget_tuple(Config(last.thread_id, "", NoCheckpointId, NoUser)) = {NoneValue}
        /\ get_conversations_by_user(StoreUser(last.thread_id), NoLimit) = {<<>>}

\* C11 as stated: delete(thread_id) returns false when no conversation with that
\* thread_id is found, and true only when the conversation existed and was removed.
C11_DeleteReportsNotFound ==
    [][(last'.op = "delete" /\ calls' = calls + 1)
       => (last'.ok => /\ \E d \in conversations : d.id = last'.thread_id
                       /\ \A d \in conversations' : d.id # last'.thread_id)]_vars

\* C12 as stated: a value the typed codec fails on makes the operation raise: a
\* put_writes that returned normally stored every write of its batch, put returns
\* normally only with its checkpoint stored, and get and list of a stored checkpoint
\* never answer as if it were absent.
C12_CodecFailureRaised ==
    /\ (last.op = "aput_writes" /\ last.ok) =>
          \A i \in DOMAIN last.batch :
              \E w \in WritesOf(<<last.thread_id, last.checkpoint_ns>>, last.checkpoint_id) :
                  /\ w.task_id = last.tid /\ w.idx = i - 1
                  /\ Returns(OneWrite(last.tid, last.batch[i]), w)
    /\ (last.op = "aput" /\ last.ok) =>
          last.checkpoint_id \in StoredIds(<<last.thread_id, last.checkpoint_ns>>)
    /\ \A key \in AllKeys :
          /\ \A cid \in StoredIds(key) : NoneValue \notin aget_tuple(GetConfig(key, cid))
          /\ ListedIds(ListAll(key)) = StoredIds(key)

\* C13 as stated: a put for a config carrying a user_id either returns with the
\* checkpoint document and the Conversation Document both stored, or raises with
\* neither container changed.
C13_PutTransactional ==
    [][(last'.op = "aput" /\ calls' = calls + 1 /\ last'.user_id # NoUser)
       => IF last'.ok
          THEN /\ last'.checkpoint_id
                     \in {d.checkpoint_id :
                            d \in {c \in checkpoints' :
                                     /\ c.thread_id = last'.thread_id
                                     /\ c.checkpoint_ns = last'.checkpoint_ns}}
               /\ \E d \in conversations' :
                     /\ d.id = last'.thread_id /\ d.userId = last'.user_id
                     /\ d.checkpointId = last'.checkpoint_id
          ELSE checkpoints' = checkpoints /\ conversations' = conversations]_vars

\* A get_or_create_thread step: it writes nothing, and for a user without a
\* Conversation Document it returns an unused id and leaves list_by_user empty.
LazyLookup ==
    (last'.op = "get_or_create" /\ calls' = calls + 1)
    => /\ conversations' = conversations
       /\ checkpoints' = checkpoints
       /\ writes' = writes
       /\ ConversationsOf(last'.user_id) = {}
            => /\ last'.tid \notin UsedThreadIds
               /\ ListByUser(conversations', last'.user_id, NoLimit) = {<<>>}
\* The step after it is the first upsert_from_checkpoint for the returned thread.
FirstUpsert ==
    /\ last.op = "get_or_create"
    /\ ConversationsOf(last.user_id) = {}
    /\ last'.op = "aput" /\ calls' = calls + 1
    /\ last'.thread_id = last.tid /\ last'.user_id = last.user_id
\* The messages of the checkpoint the put stored.
SavedMessages(container, thread_id, ns, cid) ==
    LET doc == CHOOSE d \in container :
                  d.thread_id = thread_id /\ d.checkpoint_ns = ns /\ d.checkpoint_id = cid
    IN  loads_typed(<<doc.type, doc.checkpoint>>).channel_values.messages.items

\* C14 as stated: get_or_create_thread writes no document and for a user without a
\* Conversation Document returns a fresh id with list_by_user still empty; after
\* one upsert_from_checkpoint for that thread list_by_user returns exactly one
\* entry, with message_count >= 1.
C14_LazyThenOneEntry ==
    [][/\ LazyLookup
       /\ FirstUpsert =>
            \A l \in ListByUser(conversations', last.user_id, NoLimit) :
                /\ Len(l) = 1
                /\ l[1].thread_id = last.tid
                /\ l[1].message_count >= 1]_vars

\* C14, amended: as stated, except that the one entry's message_count is the number
\* of messages of the checkpoint that was saved (so >= 1 when it holds a message).
C14_LazyThenCountOfCheckpoint ==
    [][/\ LazyLookup
       /\ FirstUpsert =>
            \A l \in ListByUser(conversations', last.user_id, NoLimit) :
                /\ Len(l) = 1
                /\ l[1].thread_id = last.tid
                /\ l[1].message_count
                     = Len(SavedMessages(checkpoints', last'.thread_id,
                                         last'.checkpoint_ns, last'.checkpoint_id))]_vars

\* A put for a synthesized thread id has made its user's only entry, of two messages.
C14_Witness ==
    /\ last.op = "aput"
    /\ last.thread_id \in allocated
    /\ \E l \in get_conversations_by_user(last.user_id, NoLimit) :
          /\ Len(l) = 1
          /\ l[1].thread_id = last.thread_id
          /\ l[1].message_count = 2

Steps(trace) == {trace[i] : i \in DOMAIN trace}

\* C15 as stated: when the agent's execution starts for an interaction with a user
\* identity, session resolution has performed get_or_create_thread, then
\* reconcile_duplicates, then the binding of thread_id and user_id, each exactly
\* once and in that order, and nothing was executed before.
C15_ResolvedOnceInOrder ==
    (session.user_id # NoUser /\ (session.pc = "execute" \/ session.outcome = "completed"))
    => /\ SubSeq(session.trace, 1, 3) = <<"get_or_create", "cleanup", "bind">>
       /\ \A i \in 1..Len(session.trace) : i > 3 => session.trace[i] = "execute"
       /\ session.config = [thread_id |-> session.thread_id, user_id |-> session.user_id]

\* C16: for an interaction without a user identity, resolution binds a thread id
\* that no earlier allocation and no stored document has, binds no user_id, makes no
\* directory call and writes nothing.
C16_AnonymousFresh ==
    [][(session.pc = "ensure" /\ session.user_id = NoUser /\ session' # session)
       => /\ session'.pc = "execute"
          /\ session'.trace = <<"bind">>
          /\ session'.config.thread_id \notin UsedThreadIds
          /\ session'.config.user_id = NoUser
          /\ conversations' = conversations
          /\ checkpoints' = checkpoints
          /\ writes' = writes
          /\ last' = last]_vars

C16_Witness ==
    /\ session.pc = "execute"
    /\ session.user_id = NoUser
    /\ session.config.thread_id \in allocated
    /\ \E d \in checkpoints : d.thread_id # session.config.thread_id
    /\ \E d \in conversations : d.id # session.config.thread_id

\* C17 as stated: an interaction in which the directory lookup or the cleanup failed
\* has ended aborted, after one run of the resolution and without an execution step.
C17_FailureAborts ==
    session.failures > 0
    => /\ session.pc = "idle"
       /\ session.outcome = "aborted"
       /\ session.attempts = 1
       /\ "execute" \notin Steps(session.trace)

\* C18: a put whose config carries no user_id stores the checkpoint and returns
\* normally, and leaves the conversations container as it was.
C18_NoUserNoDirectoryUpdate ==
    [][(last'.op = "aput" /\ calls' = calls + 1 /\ last'.user_id = NoUser)
       => /\ last'.ok
          /\ conversations' = conversations
          /\ \E d \in checkpoints' : /\ d.thread_id = last'.thread_id
                                     /\ d.checkpoint_ns = last'.checkpoint_ns
                                     /\ d.checkpoint_id = last'.checkpoint_id]_vars

C18_Witness ==
    /\ last.op = "aput"
    /\ last.user_id = NoUser
    /\ last.ok
    /\ conversations # {}
    /\ \A d \in conversations : d.id # last.thread_id
    /\ \E d \in checkpoints : d.thread_id = last.thread_id

\* C19: after an upsert_from_checkpoint the entry list_by_user reports for the thread
\* has the message_count of the checkpoint just saved, whatever the document held
\* before, and the preview is that checkpoint's first message.
C19_MessagesReplacedWholesale ==
    (last.op = "aput" /\ last.ok /\ last.user_id # NoUser) =>
        LET saved == SavedMessages(checkpoints, last.thread_id, last.checkpoint_ns,
                                   last.checkpoint_id)
        IN  \A l \in get_conversations_by_user(last.user_id, NoLimit) :
                \E i \in DOMAIN l :
                    /\ l[i].thread_id = last.thread_id
                    /\ l[i].message_count = Len(saved)
                    /\ Len(saved) >= 1 =>
                         /\ l[i].first_message_preview # NoneValue
                         /\ l[i].first_message_preview.content = saved[1].attrs.content.v
                         /\ l[i].first_message_preview.role = saved[1].attrs.type.v

\* Checkpoint 2 with "Hi", "Hello!" was saved after checkpoint 1: count 2, preview "Hi".
C19_Witness ==
    /\ last.op = "aput"
    /\ last.user_id # NoUser
    /\ last.parent # NoCheckpointId
    /\ last.parent \in StoredIds(<<last.thread_id, last.checkpoint_ns>>)
    /\ \E l \in get_conversations_by_user(last.user_id, NoLimit) :
          /\ Len(l) = 1
          /\ l[1].message_count = 2
          /\ l[1].first_message_preview.content = "Hi"

\* The checkpoint ids of the pair whose metadata, as put wrote it, has source = v.
IdsWithSource(key, v) ==
    {d.checkpoint_id :
        d \in {c \in checkpoints : /\ c.thread_id = key[1]
                                   /\ c.checkpoint_ns = key[2]
                                   /\ loads(c.metadata).items.source = v}}

\* C20 as stated: list with filter {source: v} yields exactly the checkpoints of the
\* (thread, namespace) whose stored metadata has source equal to v.
C20_FilterExactMatch ==
    \A key \in AllKeys, v \in {PyStr("input"), PyStr("loop")} :
        ListedIds(alist(GetConfig(key, NoCheckpointId), [source |-> v], NoCheckpointId,
                        NoLimit))
            = IdsWithSource(key, v)

\* The documents of container at position i of the batch put_writes was given.
WrittenAt(container, call, i) ==
    {w \in container : /\ w.thread_id = call.thread_id
                       /\ w.checkpoint_ns = call.checkpoint_ns
                       /\ w.checkpoint_id = call.checkpoint_id
                       /\ w.task_id = call.tid
                       /\ w.idx = i - 1}
\* Storing the write at position i of the batch failed: its value cannot be encoded
\* or the store refused its upsert.
WriteFailed(call, i) ==
    i \in call.rejected \/ Holds(call.batch[i][2], "lock")

\* C21: put_writes with a thread and checkpoint id returns normally and stores, for
\* every position of the batch whose write did not fail, one document with that
\* position as idx, the channel and the encoded value; the document of a position
\* whose write failed, and every document outside the batch, is as it was before.
\* put_writes with a config without checkpoint id raises and stores nothing.
C21_FailedWriteSkipped ==
    [][(last'.op = "aput_writes" /\ calls' = calls + 1)
       => IF last'.checkpoint_id = NoCheckpointId
          THEN ~last'.ok /\ writes' = writes
          ELSE /\ last'.ok
               /\ \A i \in DOMAIN last'.batch :
                     IF WriteFailed(last', i)
                     THEN WrittenAt(writes', last', i) = WrittenAt(writes, last', i)
                     ELSE \E w \in writes' :
                            /\ WrittenAt(writes', last', i) = {w}
                            /\ w.channel = last'.batch[i][1]
                            /\ <<w.type, w.value>> = dumps_typed(last'.batch[i][2])
               /\ \A w \in writes \cup writes' :
                     (\A i \in DOMAIN last'.batch : w \notin WrittenAt({w}, last', i))
                     => (w \in writes <=> w \in writes')]_vars

\* The first write of a batch of two failed and the second one is stored.
C21_Witness ==
    /\ last.op = "aput_writes" /\ last.ok
    /\ Len(last.batch) = 2
    /\ WriteFailed(last, 1) /\ ~WriteFailed(last, 2)
    /\ WrittenAt(writes, last, 1) = {}
    /\ \E w \in WrittenAt(writes, last, 2) :
          Returns(OneWrite(last.tid, last.batch[2]), w)

\* The stored checkpoints of the thread, namespace and checkpoint id of a call.
CheckpointsAt(container, call) ==
    {d \in container : /\ d.thread_id = call.thread_id
                       /\ d.checkpoint_ns = call.checkpoint_ns
                       /\ d.checkpoint_id = call.checkpoint_id}

\* C22: a put whose checkpoint id, checkpoint, metadata and config are those of an
\* earlier put on the same (thread, namespace), which is still stored, leaves the
\* checkpoints as they were: exactly one document for that key and id, with the
\* content it had after the first call.
C22_PutTwiceIsPutOnce ==
    [][(last'.op = "aput" /\ calls' = calls + 1 /\ last'.ok /\ last'.found > 0)
       => /\ checkpoints' = checkpoints
          /\ Cardinality(CheckpointsAt(checkpoints', last')) = 1]_vars

\* The put just made repeated one whose document was stored, a checkpoint of two
\* messages with a parent.
C22_Witness ==
    /\ last.op = "aput" /\ last.ok /\ last.found = 1
    /\ last.parent # NoCheckpointId
    /\ Cardinality(CheckpointsAt(checkpoints, last)) = 1
    /\ \E d \in CheckpointsAt(checkpoints, last) :
          Len(loads_typed(<<d.type, d.checkpoint>>).channel_values.messages.items) = 2

\* C23 as stated: decoding the encoding of a message of a supported class, of a
\* primitive value, or of a tree of lists and mappings of those, gives the value back.
C23_RoundTrip ==
    codec.pc = "done" => codec.decoded = codec.x

\* The Conversation Documents of a user updated within the last hours_threshold hours.
RecentConversations(user_id) ==
    {d \in ConversationsOf(user_id) : now - d.lastUpdated.iso <= hours_threshold}

\* C24 as stated: the thread id session resolution finds for an identified user is
\* that of a conversation of the user updated within the last hours_threshold
\* hours when there is one, and a new thread id otherwise.
C24_RestoresOnlyRecent ==
    [][(session.pc = "ensure" /\ session'.pc = "cleanup")
       => IF RecentConversations(session.user_id) # {}
          THEN session'.thread_id \in {d.id : d \in RecentConversations(session.user_id)}
          ELSE session'.thread_id \notin UsedThreadIds]_vars

\* C25 as stated: invoke and stream called in a thread whose event loop is running
\* get their session resolved: the interaction is aborted only by an exception of
\* the resolution itself, never by the bridge to it.
C25_SyncEntriesResolveUnderRunningLoop ==
    (/\ session.entry \in SyncEntries
     /\ session.loop = "running"
     /\ session.outcome = "aborted")
    => session.failures > 0

\* C26 as stated: DELETE /conversations/{thread_id} for a thread that has no
\* Conversation Document answers with status 404, not 500.
C26_MissingThreadIsNotFound ==
    [][(/\ last'.op = "delete_conversation_thread" /\ calls' = calls + 1
        /\ \A d \in conversations : d.id # last'.thread_id)
       => last'.status = 404]_vars

\* C27 as stated: whatever the interleaving of the queries and deletes of the
\* running cleanups with the upserts for a user, a user who has a Conversation
\* Document has one after every step.
C27_NeverLeftWithNone ==
    [][ConversationsOf(RaceUser) # {}
       => ConversationsIn(conversations', RaceUser) # {}]_vars

\* C28 as stated: when the resolution for an identified user who has Conversation
\* Documents has bound its config, the user has exactly one document left and it
\* is the document of the bound thread_id, also when documents had equal lastUpdated.
C28_BoundThreadIsRetained ==
    (/\ session.pc = "execute"
     /\ session.user_id # NoUser
     /\ ConversationsOf(session.user_id) # {})
    => \E d \in ConversationsOf(session.user_id) :
          /\ ConversationsOf(session.user_id) = {d}
          /\ d.id = session.config.thread_id

\* C29: a cleanup of user u leaves the checkpoints and the pending writes as they
\* are, removes only Conversation Documents of u and adds none, and for every
\* thread whose document it deleted get and list return what they returned before:
\* the stored checkpoint with its pending writes.
C29_CleanupTouchesOnlyTheUsersDocuments ==
    [][(last'.op = "cleanup" /\ calls' = calls + 1)
       => /\ checkpoints' = checkpoints
          /\ writes' = writes
          /\ conversations' \subseteq conversations
          /\ \A d \in conversations \ conversations' :
                d.userId = last'.user_id /\ d.id \in last'.deleted
          /\ \A t \in last'.deleted :
                /\ GetTuple(checkpoints', writes', Config(t, "", NoCheckpointId, NoUser))
                     = GetTuple(checkpoints, writes, Config(t, "", NoCheckpointId, NoUser))
                /\ NoneValue
                     \notin GetTuple(checkpoints', writes', Config(t, "", NoCheckpointId, NoUser))
                /\ ListCheckpoints(checkpoints', Config(t, "", NoCheckpointId, NoUser),
                                   <<>>, NoCheckpointId, NoLimit)
                     = ListCheckpoints(checkpoints, Config(t, "", NoCheckpointId, NoUser),
                                       <<>>, NoCheckpointId, NoLimit)]_vars

\* A cleanup deleted the document of a thread that has a checkpoint with a pending
\* write, while the other user has a document too.
C29_Witness ==
    /\ last.op = "cleanup"
    /\ \E t \in last.deleted :
          /\ \A d \in conversations : ~(d.id = t /\ d.userId = last.user_id)
          /\ \E r \in aget_tuple(Config(t, "", NoCheckpointId, NoUser)) :
                r # NoneValue /\ Len(r.pending_writes) = 1
    /\ \E d \in conversations : d.userId # last.user_id

\* The Conversation Document holds these messages, in this order.
HoldsMessages(doc, saved) ==
    /\ Len(doc.messages.items) = Len(saved)
    /\ \A i \in DOMAIN saved :
          /\ doc.messages.items[i].items.content = saved[i].attrs.content
          /\ doc.messages.items[i].items.type = saved[i].attrs.type
          /\ doc.messages.items[i].items.id = saved[i].attrs.id

\* C30: a successful put on thread t with user_id u, in whatever namespace, leaves
\* one Conversation Document of (u, t), holding the checkpoint id and the messages
\* of that put; no other call changes or adds a Conversation Document, so a document
\* that is present holds what the most recent such put gave it.
C30_DocumentHoldsLatestPut ==
    [][/\ (last'.op = "aput" /\ calls' = calls + 1 /\ last'.ok /\ last'.user_id # NoUser)
          => \E d \in conversations' :
                /\ {e \in conversations' : e.id = last'.thread_id
                                           /\ e.userId = last'.user_id} = {d}
                /\ d.checkpointId = last'.checkpoint_id
                /\ HoldsMessages(d, SavedMessages(checkpoints', last'.thread_id,
                                                  last'.checkpoint_ns,
                                                  last'.checkpoint_id))
       /\ \A d \in conversations' \ conversations :
             /\ last'.op = "aput" /\ calls' = calls + 1
             /\ d.id = last'.thread_id /\ d.userId = last'.user_id]_vars

\* The last put saved checkpoint 2 with two messages in the sub-graph namespace of a
\* thread whose default namespace holds checkpoint 1; the document names checkpoint 2.
C30_Witness ==
    /\ last.op = "aput" /\ last.ok
    /\ last.user_id = "alice"
    /\ last.checkpoint_ns = "sub"
    /\ last.checkpoint_id = 2
    /\ 1 \in StoredIds(<<last.thread_id, "">>)
    /\ 2 \notin StoredIds(<<last.thread_id, "">>)
    /\ \E d \in ConversationsOf("alice") :
          /\ d.id = last.thread_id
          /\ d.checkpointId = 2
          /\ Len(d.messages.items) = 2

====
